---- MODULE Spec2Model ----
(***************************************************************************)
(* Model of nn/layers.py: the Function / Layer / Linear / Sigmoid units.   *)
(*                                                                         *)
(* One unit instance is constructed (Linear(in_dim, out_dim) or Sigmoid()) *)
(* and a driver then calls its methods in any order:                       *)
(*     unit(X)            Function.__call__  (forward, then local_grad)    *)
(*     unit.forward(X)    the forward method on its own                    *)
(*     unit.backward(dY)                                                   *)
(*     unit._update_weights(lr)              (Layer only)                  *)
(*                                                                         *)
(* numpy arrays are 2-d integer matrices, written as sequences of rows.    *)
(* Python dicts are functions whose domain is the set of keys present;     *)
(* reading a missing key raises KeyError, a dot product or an elementwise  *)
(* operation on incompatible shapes raises ValueError.  A raised error     *)
(* leaves the method at that line: assignments after it do not happen.     *)
(***************************************************************************)
EXTENDS Integers, Sequences, FiniteSets, TLC

VARIABLES unit, self, ret, driver, steps

vars == <<unit, self, ret, driver, steps>>

(***************************************************************************)
(* Bounds and inputs                                                       *)
(***************************************************************************)
\* number of method calls the driver makes on the unit
MaxSteps == 4

\* Linear(in_dim, out_dim)
in_dim == 2
out_dim == 1

\* the values _init_weights may draw (weight['W'] is in_dim x out_dim,
\* weight['b'] is 1 x out_dim)
InitW == { << <<1>>, <<-2>> >>, << <<2>>, <<1>> >> }
Initb == { << <<3>> >> }

\* the largest batch the driver passes
MaxBatch == 2

\* the arrays the driver passes: for each shape n x c two sample arrays,
\* with entries in -2..2
Seeds == {1, 2}
Sample(k, n, c) ==
    [i \in 1..n |-> [j \in 1..c |-> ((k * i + 2 * j + k) % 5) - 2]]
Samples(c) == {Sample(k, n, c) : k \in Seeds, n \in 1..MaxBatch}

\* inputs X: batch x in_dim, and batch x out_dim (for Linear a feature
\* dimension that is not in_dim)
Xs == Samples(in_dim) \cup Samples(out_dim)

\* output gradients dY: batch x out_dim, and batch x in_dim
DYs == Samples(out_dim) \cup Samples(in_dim)

\* learning rates
LRs == {-1, 0, 2}

(***************************************************************************)
(* numpy on 2-d arrays                                                     *)
(***************************************************************************)
Rows(M) == Len(M)
Cols(M) == Len(M[1])
Shape(M) == <<Rows(M), Cols(M)>>

RECURSIVE SumTo(_, _)
\* f[1] + ... + f[n]
SumTo(f, n) == IF n = 0 THEN 0 ELSE f[n] + SumTo(f, n - 1)

\* M.T
T(M) == [j \in 1..Cols(M) |-> [i \in 1..Rows(M) |-> M[i][j]]]

\* np.dot(A, B) is defined when the inner dimensions agree
CanDot(A, B) == Cols(A) = Rows(B)
Dot(A, B) ==
    [i \in 1..Rows(A) |->
        [j \in 1..Cols(B) |->
            SumTo([k \in 1..Cols(A) |-> A[i][k] * B[k][j]], Cols(A))]]

\* numpy broadcasting of two 2-d shapes: each axis equal, or one of them 1
CanBroadcast(A, B) ==
    /\ (Rows(A) = Rows(B) \/ Rows(A) = 1 \/ Rows(B) = 1)
    /\ (Cols(A) = Cols(B) \/ Cols(A) = 1 \/ Cols(B) = 1)
Max(a, b) == IF a >= b THEN a ELSE b
\* the element of A that broadcasting puts at (i, j)
At(A, i, j) == A[IF Rows(A) = 1 THEN 1 ELSE i][IF Cols(A) = 1 THEN 1 ELSE j]
\* A + B, A - B, A * B (elementwise, broadcast)
Add(A, B) ==
    [i \in 1..Max(Rows(A), Rows(B)) |->
        [j \in 1..Max(Cols(A), Cols(B)) |-> At(A, i, j) + At(B, i, j)]]
Sub(A, B) ==
    [i \in 1..Max(Rows(A), Rows(B)) |->
        [j \in 1..Max(Cols(A), Cols(B)) |-> At(A, i, j) - At(B, i, j)]]
Mul(A, B) ==
    [i \in 1..Max(Rows(A), Rows(B)) |->
        [j \in 1..Max(Cols(A), Cols(B)) |-> At(A, i, j) * At(B, i, j)]]
\* c * M for a scalar c
Times(c, M) == [i \in 1..Rows(M) |-> [j \in 1..Cols(M) |-> c * M[i][j]]]
\* np.sum(M, axis=0, keepdims=True)
SumAxis0(M) ==
    << [j \in 1..Cols(M) |-> SumTo([i \in 1..Rows(M) |-> M[i][j]], Rows(M))] >>
\* np.ones_like(M)
OnesLike(M) == [i \in 1..Rows(M) |-> [j \in 1..Cols(M) |-> 1]]

\* the empty dict {}
EmptyDict == [k \in {} |-> 0]
Has(d, k) == k \in DOMAIN d

(***************************************************************************)
(* functional.sigmoid and functional.sigmoid_prime, in thousandths,        *)
(* on the integers -2..2                                                   *)
(***************************************************************************)
sigmoid1(x) ==
    CASE x = -2 -> 119
      [] x = -1 -> 269
      [] x = 0 -> 500
      [] x = 1 -> 731
      [] x = 2 -> 881
sigmoid(X) == [i \in 1..Rows(X) |-> [j \in 1..Cols(X) |-> sigmoid1(X[i][j])]]
sigmoid_prime(X) ==
    [i \in 1..Rows(X) |->
        [j \in 1..Cols(X) |->
            (sigmoid1(X[i][j]) * (1000 - sigmoid1(X[i][j]))) \div 1000]]

(***************************************************************************)
(* The methods.  Each takes the unit's kind u and its attributes s (the    *)
(* object `self`) and yields [raised, out, self]: the error raised ("none" *)
(* when the method returns), the value returned (<<>> for None or when an  *)
(* error is raised) and the attributes as the method leaves them.          *)
(***************************************************************************)
Returns(v, s) == [raised |-> "none", out |-> v, self |-> s]
Raises(e, s) == [raised |-> e, out |-> <<>>, self |-> s]

\* Function.__init__ / Layer.__init__ / Linear.__init__ with _init_weights
\* drawing W and b
FunctionInit == [cache |-> EmptyDict, grad |-> EmptyDict]
LinearInit(W, b) ==
    [cache |-> EmptyDict, grad |-> EmptyDict,
     weight |-> [W |-> W, b |-> b], weight_update |-> EmptyDict]

\* Linear.forward
LinearForward(s, X) ==
    IF ~CanDot(X, s.weight.W)
    THEN Raises("ValueError", s)
    ELSE LET output == Add(Dot(X, s.weight.W), s.weight.b)
         IN  Returns(output, [s EXCEPT !.cache = [X |-> X, output |-> output]])

\* Sigmoid.forward
SigmoidForward(s, X) == Returns(sigmoid(X), s)

\* self.forward(X), dispatched on the class of the unit
forward(u, s, X) ==
    IF u = "Linear" THEN LinearForward(s, X) ELSE SigmoidForward(s, X)

\* Linear.local_grad
LinearLocalGrad(s, X) ==
    [X |-> s.weight.W, W |-> X, b |-> OnesLike(s.weight.b)]

\* Sigmoid.local_grad
SigmoidLocalGrad(s, X) == [X |-> sigmoid_prime(X)]

\* self.local_grad(X), dispatched on the class of the unit
local_grad(u, s, X) ==
    IF u = "Linear" THEN LinearLocalGrad(s, X) ELSE SigmoidLocalGrad(s, X)

\* Function.__call__
call(u, s, X) ==
    LET f == forward(u, s, X)
    IN  IF f.raised # "none"
        THEN f
        ELSE Returns(f.out, [f.self EXCEPT !.grad = local_grad(u, f.self, X)])

\* Linear.backward reading the current weight instead of the cached
\* local gradient grad['X']
LinearBackward_CurrentW(s, dY) ==
    IF ~Has(s.grad, "X") THEN Raises("KeyError", s)
    ELSE IF ~CanDot(dY, T(s.weight.W)) THEN Raises("ValueError", s)
    ELSE IF ~Has(s.cache, "X") THEN Raises("KeyError", s)
    ELSE IF ~Has(s.grad, "W") THEN Raises("KeyError", s)
    ELSE IF ~CanDot(T(s.grad.W), dY) THEN Raises("ValueError", s)
    ELSE LET dX == Dot(dY, T(s.weight.W))
             dW == Dot(T(s.grad.W), dY)
             db == SumAxis0(dY)
         IN  Returns(dX, [s EXCEPT !.weight_update = [W |-> dW, b |-> db]])

\* Linear.backward storing only dW
LinearBackward_OnlyW(s, dY) ==
    IF ~Has(s.grad, "X") THEN Raises("KeyError", s)
    ELSE IF ~CanDot(dY, T(s.grad.X)) THEN Raises("ValueError", s)
    ELSE IF ~Has(s.cache, "X") THEN Raises("KeyError", s)
    ELSE IF ~Has(s.grad, "W") THEN Raises("KeyError", s)
    ELSE IF ~CanDot(T(s.grad.W), dY) THEN Raises("ValueError", s)
    ELSE LET dX == Dot(dY, T(s.grad.X))
             dW == Dot(T(s.grad.W), dY)
         IN  Returns(dX, [s EXCEPT !.weight_update = [W |-> dW]])

\* Linear.backward
LinearBackward(s, dY) ==
    IF ~Has(s.grad, "X") THEN Raises("KeyError", s)
    ELSE IF ~CanDot(dY, T(s.grad.X)) THEN Raises("ValueError", s)
    ELSE IF ~Has(s.cache, "X") THEN Raises("KeyError", s)
    ELSE IF ~Has(s.grad, "W") THEN Raises("KeyError", s)
    ELSE IF ~CanDot(T(s.grad.W), dY) THEN Raises("ValueError", s)
    ELSE LET dX == Dot(dY, T(s.grad.X))
             dW == Dot(T(s.grad.W), dY)
             db == SumAxis0(dY)
         IN  Returns(dX, [s EXCEPT !.weight_update = [W |-> dW, b |-> db]])

\* Sigmoid.backward
SigmoidBackward(s, dY) ==
    IF ~Has(s.grad, "X") THEN Raises("KeyError", s)
    ELSE IF ~CanBroadcast(dY, s.grad.X) THEN Raises("ValueError", s)
    ELSE Returns(Mul(dY, s.grad.X), s)

\* backward falling back to a local gradient of 1 when none is cached
backward_DefaultGrad(u, s, dY) ==
    IF ~Has(s.grad, "X") THEN Returns(dY, s)
    ELSE IF u = "Linear" THEN LinearBackward(s, dY) ELSE SigmoidBackward(s, dY)

\* self.backward(dY), dispatched on the class of the unit
backward(u, s, dY) ==
    IF u = "Linear" THEN LinearBackward(s, dY) ELSE SigmoidBackward(s, dY)

\* the loop body adding lr * gradient
UpdateKey_Plus(s, lr, k) ==
    IF ~Has(s.weight_update, k) THEN Raises("KeyError", s)
    ELSE IF ~CanBroadcast(s.weight[k], s.weight_update[k])
    THEN Raises("ValueError", s)
    ELSE Returns(<<>>,
                 [s EXCEPT !.weight[k] =
                     Add(s.weight[k], Times(lr, s.weight_update[k]))])

\* the loop body skipping a key that has no gradient
UpdateKey_SkipMissing(s, lr, k) ==
    IF ~Has(s.weight_update, k) THEN Returns(<<>>, s)
    ELSE IF ~CanBroadcast(s.weight[k], s.weight_update[k])
    THEN Raises("ValueError", s)
    ELSE Returns(<<>>,
                 [s EXCEPT !.weight[k] =
                     Sub(s.weight[k], Times(lr, s.weight_update[k]))])

\* the loop body updating the array in place (weight[k] -= ...): grad['X']
\* is the same array object as weight['W'] while W has not been rebound
UpdateKey_InPlace(s, lr, k) ==
    IF ~Has(s.weight_update, k) THEN Raises("KeyError", s)
    ELSE IF ~CanBroadcast(s.weight[k], s.weight_update[k])
    THEN Raises("ValueError", s)
    ELSE LET new == Sub(s.weight[k], Times(lr, s.weight_update[k]))
         IN  Returns(<<>>,
                     IF k = "W" /\ Has(s.grad, "X")
                     THEN [s EXCEPT !.weight[k] = new, !.grad.X = new]
                     ELSE [s EXCEPT !.weight[k] = new])

\* one iteration of the loop of Layer._update_weights, for key k
UpdateKey(s, lr, k) ==
    IF ~Has(s.weight_update, k) THEN Raises("KeyError", s)
    ELSE IF ~CanBroadcast(s.weight[k], s.weight_update[k])
    THEN Raises("ValueError", s)
    ELSE Returns(<<>>,
                 [s EXCEPT !.weight[k] =
                     Sub(s.weight[k], Times(lr, s.weight_update[k]))])

\* Layer._update_weights: the keys of self.weight in insertion order, W then b
_update_weights(s, lr) ==
    LET w == UpdateKey(s, lr, "W")
    IN  IF w.raised # "none" THEN w ELSE UpdateKey(w.self, lr, "b")

(***************************************************************************)
(* The state: the unit's kind and attributes, the last method call with    *)
(* its outcome, and what the driver has done so far.                       *)
(***************************************************************************)
NoCall == [op |-> "init", X |-> <<>>, lr |-> 0, raised |-> "none", out |-> <<>>]

\* called: some unit(X) has returned; X, W, b: its input and the parameters
\* it ran with (the most recent one); forwarded: some forward has returned,
\* through unit(X) or on its own; Y: the output of the most recent forward
\* that returned; backwarded: some backward has returned;
\* consumed: _update_weights has returned since the last backward returned;
\* stale: _update_weights has returned and no forward has returned since
DriverInit(W, b) ==
    [called |-> FALSE, X |-> <<>>, W |-> W, b |-> b, forwarded |-> FALSE,
     Y |-> <<>>, backwarded |-> FALSE, consumed |-> FALSE, stale |-> FALSE]

Init ==
    /\ \/ /\ unit = "Linear"
          /\ \E W \in InitW, b \in Initb :
                /\ self = LinearInit(W, b)
                /\ driver = DriverInit(W, b)
       \/ /\ unit = "Sigmoid"
          /\ self = FunctionInit
          /\ driver = DriverInit(<<>>, <<>>)
    /\ ret = NoCall
    /\ steps = 0

\* the driver evaluates unit(X)
Call(X) ==
    /\ steps < MaxSteps
    /\ LET r == call(unit, self, X)
       IN  /\ self' = r.self
           /\ ret' = [op |-> "call", X |-> X, lr |-> 0,
                      raised |-> r.raised, out |-> r.out]
           /\ driver' =
                IF r.raised # "none" THEN driver
                ELSE [driver EXCEPT
                        !.called = TRUE, !.X = X,
                        !.W = IF unit = "Linear" THEN self.weight.W ELSE <<>>,
                        !.b = IF unit = "Linear" THEN self.weight.b ELSE <<>>,
                        !.forwarded = TRUE, !.Y = r.out, !.stale = FALSE]
    /\ steps' = steps + 1
    /\ UNCHANGED unit

\* the driver evaluates unit.forward(X)
Forward(X) ==
    /\ steps < MaxSteps
    /\ LET r == forward(unit, self, X)
       IN  /\ self' = r.self
           /\ ret' = [op |-> "forward", X |-> X, lr |-> 0,
                      raised |-> r.raised, out |-> r.out]
           /\ driver' =
                IF r.raised # "none" THEN driver
                ELSE [driver EXCEPT !.forwarded = TRUE, !.Y = r.out,
                                    !.stale = FALSE]
    /\ steps' = steps + 1
    /\ UNCHANGED unit

\* the driver evaluates unit.backward(dY)
Backward(dY) ==
    /\ steps < MaxSteps
    /\ LET r == backward(unit, self, dY)
       IN  /\ self' = r.self
           /\ ret' = [op |-> "backward", X |-> dY, lr |-> 0,
                      raised |-> r.raised, out |-> r.out]
           /\ driver' =
                IF r.raised # "none" THEN driver
                ELSE [driver EXCEPT !.backwarded = TRUE, !.consumed = FALSE]
    /\ steps' = steps + 1
    /\ UNCHANGED unit

\* the driver evaluates unit._update_weights(lr); Sigmoid has no such method
Update(lr) ==
    /\ steps < MaxSteps
    /\ unit = "Linear"
    /\ LET r == _update_weights(self, lr)
       IN  /\ self' = r.self
           /\ ret' = [op |-> "update", X |-> <<>>, lr |-> lr,
                      raised |-> r.raised, out |-> r.out]
           /\ driver' =
                IF r.raised # "none" THEN driver
                ELSE [driver EXCEPT !.consumed = TRUE, !.stale = TRUE]
    /\ steps' = steps + 1
    /\ UNCHANGED unit

Next ==
    \/ \E X \in Xs : Call(X)
    \/ \E X \in Xs : Forward(X)
    \/ \E dY \in DYs : Backward(dY)
    \/ \E lr \in LRs : Update(lr)

Spec == Init /\ [][Next]_vars

(***************************************************************************)
(* Properties                                                              *)
(***************************************************************************)
\* a step in which the driver called method op
Called(op) == steps' = steps + 1 /\ ret'.op = op
\* a step in which that call returned
Returned(op) == Called(op) /\ ret'.raised = "none"

\* reference matrix operators, entry by entry
RefDX(dY, W) ==
    [i \in 1..Len(dY) |->
        [j \in 1..Len(W) |->
            SumTo([k \in 1..Len(W[1]) |-> dY[i][k] * W[j][k]], Len(W[1]))]]
RefDW(X, dY) ==
    [i \in 1..Len(X[1]) |->
        [j \in 1..Len(dY[1]) |->
            SumTo([n \in 1..Len(X) |-> X[n][i] * dY[n][j]], Len(X))]]
RefDb(dY) ==
    << [j \in 1..Len(dY[1]) |->
            SumTo([n \in 1..Len(dY) |-> dY[n][j]], Len(dY))] >>
RefOutput(X, W, b) ==
    [i \in 1..Len(X) |->
        [j \in 1..Len(W[1]) |->
            SumTo([k \in 1..Len(W) |-> X[i][k] * W[k][j]], Len(W)) + b[1][j]]]
RefOnes(b) == [i \in 1..Len(b) |-> [j \in 1..Len(b[1]) |-> 1]]
\* the local gradients of unit u at input X with parameters W, b
RefLocalGrad(u, X, W, b) ==
    IF u = "Linear"
    THEN [X |-> W, W |-> X, b |-> RefOnes(b)]
    ELSE [X |-> [i \in 1..Len(X) |->
                    [j \in 1..Len(X[1]) |->
                        (sigmoid1(X[i][j]) * (1000 - sigmoid1(X[i][j])))
                            \div 1000]]]
\* the forward cache of unit u after forward at X with parameters W, b
RefCache(u, X, W, b) ==
    IF u = "Linear"
    THEN [X |-> X, output |-> RefOutput(X, W, b)]
    ELSE EmptyDict

\* C1: on a unit on which no forward has ever returned, backward(dY) raises
\* (KeyError, the local gradient is undefined), returns nothing, and leaves
\* parameters, both caches and the parameter-update set as they were.
C1_BackwardBeforeForwardFails ==
    [][(Called("backward") /\ ~driver.forwarded)
        => (ret'.raised = "KeyError" /\ ret'.out = <<>> /\ self' = self)]_vars

C1_Witness ==
    /\ ret.op = "backward"
    /\ ~driver.forwarded
    /\ ret.raised = "KeyError"
    /\ self.grad = EmptyDict

\* C2: whenever forward(X) returns, whether the driver called forward
\* itself or reached it through unit(X), the local-gradient cache holds the
\* local gradient of every operand at X (so that a backward right after it
\* finds them).
C2_ForwardStoresLocalGrad ==
    [][(Returned("forward") \/ Returned("call"))
        => self'.grad =
             RefLocalGrad(unit, ret'.X,
                          IF unit = "Linear" THEN self.weight.W ELSE <<>>,
                          IF unit = "Linear" THEN self.weight.b ELSE <<>>)]_vars

\* The same for unit(X) alone: when unit(X) returns, the local-gradient
\* cache holds the local gradient of every operand at X.
CallStoresLocalGrad ==
    [][Returned("call")
        => self'.grad =
             RefLocalGrad(unit, ret'.X,
                          IF unit = "Linear" THEN self.weight.W ELSE <<>>,
                          IF unit = "Linear" THEN self.weight.b ELSE <<>>)]_vars

\* C3: after a backward has stored dW and db, an _update_weights(lr) that
\* returns has replaced every parameter k by old[k] - lr * gradient[k],
\* entry by entry, for negative lr too; with lr = 0 every parameter keeps
\* its value.
C3_UpdateRule ==
    [][(unit = "Linear" /\ driver.backwarded /\ Returned("update"))
        => /\ DOMAIN self'.weight = {"W", "b"}
           /\ \A k \in {"W", "b"} :
                self'.weight[k] =
                    [i \in 1..Len(self.weight[k]) |->
                        [j \in 1..Len(self.weight[k][1]) |->
                            self.weight[k][i][j]
                              - ret'.lr * self.weight_update[k][i][j]]]
           /\ (ret'.lr = 0 => self'.weight = self.weight)]_vars

C3_Witness ==
    /\ unit = "Linear"
    /\ ret.op = "update"
    /\ ret.raised = "none"
    /\ ret.lr < 0
    /\ driver.called
    /\ self.weight.W # driver.W
    /\ self.weight.b # driver.b

\* C4: once _update_weights has consumed the gradients of a backward, a
\* second _update_weights with no backward in between raises, and a
\* backward with no forward since that update raises.
C4_ProtocolOrderEnforced ==
    [][unit = "Linear"
        => /\ (Called("update") /\ driver.consumed) => ret'.raised # "none"
           /\ (Called("backward") /\ driver.stale) => ret'.raised # "none"]_vars

\* C5: on a Linear unit on which no backward has returned, _update_weights
\* raises (KeyError) and W and b keep their values.
C5_UpdateBeforeBackwardFails ==
    [][(unit = "Linear" /\ Called("update") /\ ~driver.backwarded)
        => (ret'.raised = "KeyError" /\ self'.weight = self.weight)]_vars

C5_Witness ==
    /\ unit = "Linear"
    /\ ret.op = "update"
    /\ ret.raised = "KeyError"
    /\ driver.called
    /\ ~driver.backwarded

C7_CachesReflectLastInvocation ==
    driver.called
        => /\ self.cache = RefCache(unit, driver.X, driver.W, driver.b)
           /\ self.grad = RefLocalGrad(unit, driver.X, driver.W, driver.b)

\* C8: after a forward, a backward(dY) whose dY has another shape than the
\* most recent forward output raises ValueError.
C8_BackwardShapeMismatchRaises ==
    [][(Called("backward") /\ driver.called
            /\ Shape(ret'.X) # Shape(driver.Y))
        => ret'.raised = "ValueError"]_vars

\* C9: once a backward has returned on a Linear unit, the keys of
\* weight_update are the keys of weight, W and b, whatever calls follow.
C9_UpdateKeysAreParameterKeys ==
    (unit = "Linear" /\ driver.backwarded)
        => /\ DOMAIN self.weight_update = DOMAIN self.weight
           /\ DOMAIN self.weight = {"W", "b"}

C9_Witness ==
    /\ unit = "Linear"
    /\ driver.backwarded
    /\ driver.consumed
    /\ ret.op = "call"
    /\ ret.raised = "none"

\* C10: on a Linear unit _update_weights writes only weight (cache, grad and
\* weight_update keep their values, and grad['X'] stays the W of the most
\* recent invocation), and backward writes only weight_update (weight, cache
\* and grad keep their values).
C10_Frames ==
    [][unit = "Linear"
        => /\ Called("update")
                => /\ self'.cache = self.cache
                   /\ self'.grad = self.grad
                   /\ self'.weight_update = self.weight_update
                   /\ driver.called => self'.grad.X = driver.W
           /\ Called("backward")
                => /\ self'.weight = self.weight
                   /\ self'.cache = self.cache
                   /\ self'.grad = self.grad]_vars

C10_Witness ==
    /\ unit = "Linear"
    /\ ret.op = "update"
    /\ ret.raised = "none"
    /\ self.weight.W # self.grad.X
    /\ self.grad.X = driver.W

====
